---------------------------- MODULE Spec2Model ----------------------------
(***************************************************************************)
(* A model of the Game of Life 3D simulator: the toroidal grid automaton   *)
(* (src/src/gameOfLife.js, class GameOfLife), the blob bookkeeping and the *)
(* generation-transition animation of class BlobVisualizer, and the step   *)
(* and reset handlers of GameOfLife3DApp (src/src/blobVisualizer.js).      *)
(*                                                                         *)
(* A grid is a function grid[y][x] over 0..size-1, as the code's array of  *)
(* rows. JavaScript runs one task at a time: a handler (a GUI click, a     *)
(* tween's onComplete) runs to its end, then every queued promise reaction *)
(* (microtask) runs before the next handler starts.                        *)
(***************************************************************************)
EXTENDS Integers, Sequences, FiniteSets, TLC

(***************************************************************************)
(* Bounds of the model.                                                    *)
(***************************************************************************)
\* side of the grid of the application specifications (config.gridSize)
N == 4
\* initial and reset grids of the generation specification have their live
\* cells inside the SeedW x SeedW corner window, in every combination
SeedW == 3
\* live cells of the grids on which getCell is called
CellLive == 1
\* getCell is called with x and y from -(size + ArgSlack) to 2*size + ArgSlack - 1
ArgSlack == 2

\* the application's initial and reset grids have their live cells among the
\* first SeedBits cells of SeedCells, in every combination
SeedBits == 3
\* calls of the handlers step and reset in one behaviour
MaxCalls == 3

\* the clustering specification starts from every list of at most ClusterLive
\* blobs on distinct cells among the first ClusterBits cells of ClusterCells
ClusterBits == 6
ClusterLive == 4
\* the two grids given to getChangedCells have their live cells among the
\* first DiffBits cells of SeedCells, in every combination
DiffBits == 4

VARIABLES
    grid,            \* game.grid
    call,            \* the last call or callback that the statements observe, and what it returned
    heap,            \* the blob objects in use: id -> [x, y, isNew, visible, tiny, organismId]
    blobs,           \* this.blobs: sequence of blob ids
    blobsMap,        \* this.blobsMap: <<x, y>> -> blob id, 0 where the key is absent
    organismGroups,  \* this.organismGroups: sequence of [id, blobs]
    metaballsMap,    \* this.metaballsMap: organism id -> id of its MarchingCubes object
    metaballs,       \* the MarchingCubes objects in use: id -> [organism, parent]
    pendingChanges,  \* this.pendingChanges: <<>> for null, <<changes>> otherwise
    isAnimating,     \* this.isAnimating
    chains,          \* the promise chains of animateNextGeneration still running
    baseGrid,        \* history: the grid made by the constructor or the last reset
    nCalls,          \* history: calls of step and reset in this behaviour
    app              \* GameOfLife3DApp: isPaused, lastStepTime, and now, the time
                     \* performance.now() gave in the last frame

Coords(size) == 0 .. (size - 1)

Cells(size) == Coords(size) \X Coords(size)

\* the grid of the given size whose live cells are exactly the <<x, y>> of S
GridOf(S, size) ==
    [y \in Coords(size) |-> [x \in Coords(size) |-> IF <<x, y>> \in S THEN 1 ELSE 0]]

LiveCells(g, size) == {c \in Cells(size) : g[c[2]][c[1]] = 1}

Min(a, b) == IF a < b THEN a ELSE b

RangeSeq(s) == {s[i] : i \in DOMAIN s}

\* the scan order of the loops `for y ... for x ...`
CellOrder(size) == [i \in 1 .. (size * size) |-> <<(i - 1) % size, (i - 1) \div size>>]

Window(w, size) == Coords(Min(w, size)) \X Coords(Min(w, size))

(***************************************************************************)
(* JavaScript's % : the remainder has the sign of the dividend.            *)
(***************************************************************************)
JsRem(a, n) == IF a >= 0 THEN a % n ELSE 0 - ((0 - a) % n)

(***************************************************************************)
(* GameOfLife.getCell. grid[wrappedY] is undefined when wrappedY is not an *)
(* index of the array, and reading a property of undefined throws a        *)
(* TypeError; row[wrappedX] outside the row is undefined.                  *)
(***************************************************************************)
getCell(g, size, x, y) ==
    LET wrappedX == JsRem(x + size, size)
        wrappedY == JsRem(y + size, size)
    IN  IF wrappedY \notin DOMAIN g
        THEN [tag |-> "TypeError", val |-> 0]
        ELSE IF wrappedX \notin DOMAIN g[wrappedY]
             THEN [tag |-> "undefined", val |-> 0]
             ELSE [tag |-> "value", val |-> g[wrappedY][wrappedX]]

\* the offsets <<dx, dy>> in the order of the two nested loops (dy outer)
NeighborOffsets ==
    << <<-1, -1>>, <<0, -1>>, <<1, -1>>,
       <<-1,  0>>,            <<1,  0>>,
       <<-1,  1>>, <<0,  1>>, <<1,  1>> >>

RECURSIVE SumCells(_, _, _, _, _)
SumCells(g, size, x, y, i) ==
    IF i > Len(NeighborOffsets)
    THEN 0
    ELSE getCell(g, size, x + NeighborOffsets[i][1], y + NeighborOffsets[i][2]).val
         + SumCells(g, size, x, y, i + 1)

\* a count that stops at the edges of the grid: offsets that leave it add 0
countNeighborsNoWrap(g, size, x, y) ==
    Cardinality({i \in DOMAIN NeighborOffsets :
        /\ x + NeighborOffsets[i][1] \in Coords(size)
        /\ y + NeighborOffsets[i][2] \in Coords(size)
        /\ g[y + NeighborOffsets[i][2]][x + NeighborOffsets[i][1]] = 1})

\* GameOfLife.countNeighbors
countNeighbors(g, size, x, y) == SumCells(g, size, x, y, 1)

\* GameOfLife.computeNextGeneration
computeNextGenerationBirthOnly(g, size) ==
    [y \in Coords(size) |-> [x \in Coords(size) |->
        LET cell == getCell(g, size, x, y).val
            neighbors == countNeighbors(g, size, x, y)
        IN  IF cell = 1
            THEN (IF neighbors = 3 THEN 1 ELSE 0)
            ELSE (IF neighbors = 3 THEN 1 ELSE 0)]]

\* a rule under which a live cell with one neighbour survives too
computeNextGenerationLonelySurvive(g, size) ==
    [y \in Coords(size) |-> [x \in Coords(size) |->
        LET cell == getCell(g, size, x, y).val
            neighbors == countNeighbors(g, size, x, y)
        IN  IF cell = 1
            THEN (IF neighbors = 1 \/ neighbors = 2 \/ neighbors = 3 THEN 1 ELSE 0)
            ELSE (IF neighbors = 3 THEN 1 ELSE 0)]]

\* a rule under which a dead cell with two neighbours is born too
computeNextGenerationBirthAtTwo(g, size) ==
    [y \in Coords(size) |-> [x \in Coords(size) |->
        LET cell == getCell(g, size, x, y).val
            neighbors == countNeighbors(g, size, x, y)
        IN  IF cell = 1
            THEN (IF neighbors = 2 \/ neighbors = 3 THEN 1 ELSE 0)
            ELSE (IF neighbors = 2 \/ neighbors = 3 THEN 1 ELSE 0)]]

computeNextGeneration(g, size) ==
    [y \in Coords(size) |-> [x \in Coords(size) |->
        LET cell == getCell(g, size, x, y).val
            neighbors == countNeighbors(g, size, x, y)
        IN  IF cell = 1
            THEN (IF neighbors = 2 \/ neighbors = 3 THEN 1 ELSE 0)
            ELSE (IF neighbors = 3 THEN 1 ELSE 0)]]

\* a list that gives each changed cell with the state it had
getChangedCellsOldState(oldGrid, newGrid, size) ==
    LET Differs(c) == oldGrid[c[2]][c[1]] # newGrid[c[2]][c[1]]
        cells == SelectSeq(CellOrder(size), Differs)
    IN  [i \in DOMAIN cells |->
            [x |-> cells[i][1], y |-> cells[i][2],
             state |-> oldGrid[cells[i][2]][cells[i][1]]]]

\* a list with an entry for every cell, changed or not
getChangedCellsEveryCell(oldGrid, newGrid, size) ==
    LET cells == CellOrder(size)
    IN  [i \in DOMAIN cells |->
            [x |-> cells[i][1], y |-> cells[i][2],
             state |-> newGrid[cells[i][2]][cells[i][1]]]]

\* GameOfLife.getChangedCells
getChangedCells(oldGrid, newGrid, size) ==
    LET Differs(c) == oldGrid[c[2]][c[1]] # newGrid[c[2]][c[1]]
        cells == SelectSeq(CellOrder(size), Differs)
    IN  [i \in DOMAIN cells |->
            [x |-> cells[i][1], y |-> cells[i][2],
             state |-> newGrid[cells[i][2]][cells[i][1]]]]

vars == <<grid, call, heap, blobs, blobsMap, organismGroups, metaballsMap,
          metaballs, pendingChanges, isAnimating, chains, baseGrid, nCalls, app>>

appVars == <<heap, blobs, blobsMap, organismGroups, metaballsMap,
             metaballs, pendingChanges, isAnimating, chains, baseGrid, nCalls, app>>

\* GameOfLife3DApp.init: lastStepTime = 0 and isPaused = !config.autoplay,
\* where config has no autoplay
AppStart == [isPaused |-> TRUE, lastStepTime |-> 0, now |-> 0]

\* the visualizer is not part of the grid-automaton specifications
NoApp ==
    /\ heap = <<>>
    /\ blobs = <<>>
    /\ blobsMap = <<>>
    /\ organismGroups = <<>>
    /\ metaballsMap = <<>>
    /\ metaballs = <<>>
    /\ pendingChanges = <<>>
    /\ isAnimating = FALSE
    /\ chains = <<>>
    /\ baseGrid = <<>>
    /\ nCalls = 0
    /\ app = AppStart

NoCall == [op |-> "none"]

(***************************************************************************)
(* The grid automaton alone: getCell called with any integer arguments.    *)
(***************************************************************************)
ArgRange(size) == (0 - (size + ArgSlack)) .. (2 * size + ArgSlack - 1)

InitCell ==
    /\ \E S \in SUBSET Cells(N) :
          /\ Cardinality(S) <= CellLive
          /\ grid = GridOf(S, N)
    /\ call = NoCall
    /\ NoApp

CallGetCell ==
    /\ \E x \in ArgRange(N), y \in ArgRange(N) :
          call' = [op |-> "getCell", x |-> x, y |-> y, ret |-> getCell(grid, N, x, y)]
    /\ UNCHANGED grid
    /\ UNCHANGED appVars

NextCell == CallGetCell

SpecCell == InitCell /\ [][NextCell]_vars

(***************************************************************************)
(* The grid automaton alone: computeNextGeneration called on a grid, twice *)
(***************************************************************************)
InitGen ==
    /\ \E S \in SUBSET Window(SeedW, N) : grid = GridOf(S, N)
    /\ call = [op |-> "none", n |-> 0, arg |-> <<>>, ret |-> <<>>, prev |-> <<>>]
    /\ NoApp

\* a caller that stores the returned grid over this.grid before it returns
CallComputeNextGenerationInPlace ==
    /\ call.n < 2
    /\ call' = [op |-> "computeNextGeneration", n |-> call.n + 1, arg |-> grid,
                ret |-> computeNextGeneration(grid, N), prev |-> call.ret]
    /\ grid' = computeNextGeneration(grid, N)
    /\ UNCHANGED appVars

\* computeNextGeneration writes the local nextGrid only and returns it
CallComputeNextGeneration ==
    /\ call.n < 2
    /\ call' = [op |-> "computeNextGeneration", n |-> call.n + 1, arg |-> grid,
                ret |-> computeNextGeneration(grid, N), prev |-> call.ret]
    /\ UNCHANGED grid
    /\ UNCHANGED appVars

NextGen == CallComputeNextGeneration

SpecGen == InitGen /\ [][NextGen]_vars

(***************************************************************************)
(* The grid automaton alone: countNeighbors called on every cell of a grid *)
(* whose live cells lie in the 3 x 3 block around (0, 0), which reaches    *)
(* through both edges to row and column size-1.                            *)
(***************************************************************************)
WrapBlock(size) == {size - 1, 0, 1} \X {size - 1, 0, 1}

InitCount ==
    /\ \E S \in SUBSET WrapBlock(N) : grid = GridOf(S, N)
    /\ call = NoCall
    /\ NoApp

CallCountNeighbors ==
    /\ \E x \in Coords(N), y \in Coords(N) :
          call' = [op |-> "countNeighbors", x |-> x, y |-> y,
                   ret |-> countNeighbors(grid, N, x, y)]
    /\ UNCHANGED grid
    /\ UNCHANGED appVars

NextCount == CallCountNeighbors

SpecCount == InitCount /\ [][NextCount]_vars

(***************************************************************************)
(* BlobVisualizer. The object's fields are gathered in a record v with the *)
(* fields heap, blobs, blobsMap, organismGroups, metaballsMap, metaballs, *)
(* pendingChanges, isAnimating and chains; a method is an operator from v  *)
(* to the v it leaves (and what it returns). Blob objects are compared by  *)
(* identity in the code, so they live in v.heap under an id; the key       *)
(* `${x},${y}` of blobsMap is the pair <<x, y>>.                           *)
(***************************************************************************)
EmptyMap(size) == [c \in Cells(size) |-> 0]

KeyOf(hp, b) == <<hp[b].x, hp[b].y>>

\* the blob objects that something still refers to
InUse(v) ==
    RangeSeq(v.blobs)
    \cup ({v.blobsMap[c] : c \in DOMAIN v.blobsMap} \ {0})
    \cup UNION {RangeSeq(v.organismGroups[i].blobs) : i \in DOMAIN v.organismGroups}
    \cup UNION {RangeSeq(v.pendingChanges[i].newBlobs)
                \cup RangeSeq(v.pendingChanges[i].blobsToRemove) : i \in DOMAIN v.pendingChanges}
    \cup UNION {RangeSeq(v.chains[i].changes.newBlobs)
                \cup RangeSeq(v.chains[i].changes.blobsToRemove) : i \in DOMAIN v.chains}

\* the MarchingCubes objects that metaballsMap holds or that are children
\* of this.object
MetaballsInUse(v) ==
    {m \in DOMAIN v.metaballs :
        v.metaballs[m].parent \/ \E id \in DOMAIN v.metaballsMap : v.metaballsMap[id] = m}

\* objects nothing refers to are dropped, so that a new object takes the
\* smallest id not in use
Collect(v) ==
    [v EXCEPT !.heap = [b \in (DOMAIN v.heap) \cap InUse(v) |-> v.heap[b]],
              !.metaballs = [m \in MetaballsInUse(v) |-> v.metaballs[m]]]

RECURSIVE FreshIds(_, _)
FreshIds(used, k) ==
    IF k = 0
    THEN <<>>
    ELSE LET i == CHOOSE j \in 1 .. (Cardinality(used) + 1) :
                      j \notin used /\ \A h \in 1 .. (j - 1) : h \in used
         IN  <<i>> \o FreshIds(used \cup {i}, k - 1)

\* a createBlob that shows every blob it makes
createBlobShown(x, y, visible) ==
    [x |-> x, y |-> y, organismId |-> -1, isNew |-> FALSE, visible |-> TRUE,
     tiny |-> FALSE]

\* BlobVisualizer.createBlob: the object it returns. visible is mesh.visible,
\* tiny is TRUE while mesh.scale is (0.01, 0.01, 0.01)
createBlob(x, y, visible) ==
    [x |-> x, y |-> y, organismId |-> -1, isNew |-> ~visible, visible |-> visible,
     tiny |-> ~visible]

\* a neighbour loop that takes x + dx and y + dy as they are, with no wrap
RECURSIVE CheckNeighborsNoWrap(_, _, _, _, _, _, _)
CheckNeighborsNoWrap(x, y, i, queue, visited, bm, size) ==
    IF i > Len(NeighborOffsets)
    THEN [queue |-> queue, visited |-> visited]
    ELSE LET neighborKey == <<x + NeighborOffsets[i][1], y + NeighborOffsets[i][2]>>
         IN  IF /\ neighborKey \in DOMAIN bm
                /\ bm[neighborKey] # 0
                /\ neighborKey \notin visited
             THEN CheckNeighborsNoWrap(x, y, i + 1, Append(queue, bm[neighborKey]),
                                       visited \cup {neighborKey}, bm, size)
             ELSE CheckNeighborsNoWrap(x, y, i + 1, queue, visited, bm, size)

\* the 8-neighbour loop of identifyOrganismGroups, from offset i on
RECURSIVE CheckNeighbors(_, _, _, _, _, _, _)
CheckNeighbors(x, y, i, queue, visited, bm, size) ==
    IF i > Len(NeighborOffsets)
    THEN [queue |-> queue, visited |-> visited]
    ELSE LET nx == JsRem(x + NeighborOffsets[i][1] + size, size)
             ny == JsRem(y + NeighborOffsets[i][2] + size, size)
             neighborKey == <<nx, ny>>
         IN  IF bm[neighborKey] # 0 /\ neighborKey \notin visited
             THEN CheckNeighbors(x, y, i + 1, Append(queue, bm[neighborKey]),
                                 visited \cup {neighborKey}, bm, size)
             ELSE CheckNeighbors(x, y, i + 1, queue, visited, bm, size)

\* a search that takes the neighbours of the first blob and goes no further
BfsOneLevel(queue, visited, members, bm, hp, size) ==
    IF queue = <<>>
    THEN [members |-> members, visited |-> visited]
    ELSE LET currentBlob == Head(queue)
             r == CheckNeighbors(hp[currentBlob].x, hp[currentBlob].y, 1,
                                 Tail(queue), visited, bm, size)
         IN  [members |-> Append(members, currentBlob) \o r.queue,
              visited |-> r.visited]

\* the `while (queue.length > 0)` loop
RECURSIVE Bfs(_, _, _, _, _, _)
Bfs(queue, visited, members, bm, hp, size) ==
    IF queue = <<>>
    THEN [members |-> members, visited |-> visited]
    ELSE LET currentBlob == Head(queue)
             r == CheckNeighbors(hp[currentBlob].x, hp[currentBlob].y, 1,
                                 Tail(queue), visited, bm, size)
         IN  Bfs(r.queue, r.visited, Append(members, currentBlob), bm, hp, size)

\* a loop without `currentOrganismId++`
RECURSIVE ForEachBlobSameId(_, _, _, _, _, _, _)
ForEachBlobSameId(bl, i, visited, groups, bm, hp, size) ==
    IF i > Len(bl)
    THEN groups
    ELSE LET key == KeyOf(hp, bl[i])
         IN  IF key \in visited
             THEN ForEachBlobSameId(bl, i + 1, visited, groups, bm, hp, size)
             ELSE LET r == Bfs(<<bl[i]>>, visited \cup {key}, <<>>, bm, hp, size)
                      organism == [id |-> 0, blobs |-> r.members]
                  IN  ForEachBlobSameId(bl, i + 1, r.visited, Append(groups, organism),
                                        bm, hp, size)

\* the `this.blobs.forEach` loop, from the i-th blob on
RECURSIVE ForEachBlob(_, _, _, _, _, _, _)
ForEachBlob(bl, i, visited, groups, bm, hp, size) ==
    IF i > Len(bl)
    THEN groups
    ELSE LET key == KeyOf(hp, bl[i])
         IN  IF key \in visited
             THEN ForEachBlob(bl, i + 1, visited, groups, bm, hp, size)
             ELSE LET r == Bfs(<<bl[i]>>, visited \cup {key}, <<>>, bm, hp, size)
                      organism == [id |-> Len(groups), blobs |-> r.members]
                  IN  ForEachBlob(bl, i + 1, r.visited, Append(groups, organism),
                                  bm, hp, size)

\* BlobVisualizer.identifyOrganismGroups
identifyOrganismGroups(v, size) ==
    LET groups == ForEachBlob(v.blobs, 1, {}, <<>>, v.blobsMap, v.heap, size)
        Of(b) == {i \in DOMAIN groups : b \in RangeSeq(groups[i].blobs)}
    IN  [v EXCEPT
            !.organismGroups = groups,
            !.heap = [b \in DOMAIN v.heap |->
                        IF Of(b) = {}
                        THEN v.heap[b]
                        ELSE [v.heap[b] EXCEPT
                                !.organismId = groups[CHOOSE i \in Of(b) : TRUE].id]]]

\* parent.remove(object) for every entry of the map, where the object has a
\* parent
DetachMapped(v) ==
    [m \in DOMAIN v.metaballs |->
        IF \E id \in DOMAIN v.metaballsMap : v.metaballsMap[id] = m
        THEN [v.metaballs[m] EXCEPT !.parent = FALSE]
        ELSE v.metaballs[m]]

\* a createMetaballOrganisms that clears the map and leaves the old objects
\* in the scene
createMetaballOrganismsKeepsOld(v) ==
    LET IsNonEmpty(o) == Len(o.blobs) # 0
        made == SelectSeq(v.organismGroups, IsNonEmpty)
        ids == FreshIds(DOMAIN v.metaballs, Len(made))
        Last(id) == CHOOSE i \in DOMAIN made :
                        /\ made[i].id = id
                        /\ \A k \in DOMAIN made : made[k].id = id => k <= i
    IN  [v EXCEPT
            !.metaballsMap = [id \in {made[i].id : i \in DOMAIN made} |-> ids[Last(id)]],
            !.metaballs = [m \in (DOMAIN v.metaballs) \cup RangeSeq(ids) |->
                            IF m \in RangeSeq(ids)
                            THEN [organism |-> made[CHOOSE i \in DOMAIN ids : ids[i] = m].id,
                                  parent |-> TRUE]
                            ELSE v.metaballs[m]]]

\* BlobVisualizer.createMetaballOrganisms: the objects of the map leave the
\* scene, the map is cleared, and every organism with blobs gets a new
\* object, stored under the organism's id and added to the scene
createMetaballOrganisms(v) ==
    LET IsNonEmpty(o) == Len(o.blobs) # 0
        made == SelectSeq(v.organismGroups, IsNonEmpty)
        ids == FreshIds(DOMAIN v.metaballs, Len(made))
        old == DetachMapped(v)
        Last(id) == CHOOSE i \in DOMAIN made :
                        /\ made[i].id = id
                        /\ \A k \in DOMAIN made : made[k].id = id => k <= i
    IN  [v EXCEPT
            !.metaballsMap = [id \in {made[i].id : i \in DOMAIN made} |-> ids[Last(id)]],
            !.metaballs = [m \in (DOMAIN v.metaballs) \cup RangeSeq(ids) |->
                            IF m \in RangeSeq(ids)
                            THEN [organism |-> made[CHOOSE i \in DOMAIN ids : ids[i] = m].id,
                                  parent |-> TRUE]
                            ELSE old[m]]]

\* BlobVisualizer.updateMetaballPositions: an entry whose organism is gone
\* or empty leaves the scene and the map
updateMetaballPositions(v) ==
    LET Stays(id) == \E i \in DOMAIN v.organismGroups :
                        v.organismGroups[i].id = id /\ Len(v.organismGroups[i].blobs) # 0
        gone == {v.metaballsMap[id] : id \in {k \in DOMAIN v.metaballsMap : ~Stays(k)}}
    IN  [v EXCEPT
            !.metaballsMap = [id \in {k \in DOMAIN v.metaballsMap : Stays(k)} |->
                                v.metaballsMap[id]],
            !.metaballs = [m \in DOMAIN v.metaballs |->
                            IF m \in gone
                            THEN [v.metaballs[m] EXCEPT !.parent = FALSE]
                            ELSE v.metaballs[m]]]

\* this.object.remove(child) for every child of this.object
RemoveChildren(v) ==
    [v EXCEPT !.metaballs = [m \in DOMAIN @ |-> [@[m] EXCEPT !.parent = FALSE]]]

\* BlobVisualizer.createBlobs
createBlobs(v, g, size) ==
    LET IsLive(c) == g[c[2]][c[1]] = 1
        live == SelectSeq(CellOrder(size), IsLive)
        cleared == [RemoveChildren(v) EXCEPT !.blobs = <<>>, !.blobsMap = EmptyMap(size),
                                             !.metaballsMap = <<>>]
        ids == FreshIds(InUse(cleared), Len(live))
        made == [b \in RangeSeq(ids) |->
                    LET c == live[CHOOSE i \in DOMAIN ids : ids[i] = b]
                    IN  createBlob(c[1], c[2], TRUE)]
        filled == [cleared EXCEPT
                    !.blobs = ids,
                    !.blobsMap = [c \in Cells(size) |->
                                    IF \E i \in DOMAIN live : live[i] = c
                                    THEN ids[CHOOSE i \in DOMAIN live : live[i] = c]
                                    ELSE 0],
                    !.heap = [b \in (DOMAIN v.heap) \cup RangeSeq(ids) |->
                                IF b \in RangeSeq(ids) THEN made[b] ELSE v.heap[b]]]
    IN  createMetaballOrganisms(identifyOrganismGroups(filled, size))

\* a prepare that makes a placeholder for every cell alive in the next grid,
\* the cells that stay alive included
prepareNextGenerationAllLive(v, currentGrid, nextGrid, size) ==
    IF v.isAnimating
    THEN [v |-> v, ret |-> FALSE]
    ELSE LET Appears(c) == nextGrid[c[2]][c[1]] = 1
             Dies(c) == currentGrid[c[2]][c[1]] = 1 /\ nextGrid[c[2]][c[1]] = 0
             Stays(c) == currentGrid[c[2]][c[1]] = 1 /\ nextGrid[c[2]][c[1]] = 1
             HasBlob(c) == v.blobsMap[c] # 0
             appearing == SelectSeq(CellOrder(size), Appears)
             disappearing == SelectSeq(CellOrder(size), Dies)
             found == SelectSeq(disappearing, HasBlob)
             ids == FreshIds(InUse(v), Len(appearing))
             changes == [appearingCells |-> appearing,
                         disappearingCells |-> disappearing,
                         persistentCells |-> SelectSeq(CellOrder(size), Stays),
                         newBlobs |-> ids,
                         blobsToRemove |-> [i \in DOMAIN found |-> v.blobsMap[found[i]]]]
         IN  [v |-> [v EXCEPT
                        !.pendingChanges = <<changes>>,
                        !.heap = [b \in (DOMAIN v.heap) \cup RangeSeq(ids) |->
                                    IF b \in RangeSeq(ids)
                                    THEN LET c == appearing[CHOOSE i \in DOMAIN ids : ids[i] = b]
                                         IN  createBlob(c[1], c[2], FALSE)
                                    ELSE v.heap[b]]],
              ret |-> TRUE]

\* a prepare whose third test is an if of its own, not an else-if: every
\* cell alive in the current grid is listed as persistent
prepareNextGenerationNoElse(v, currentGrid, nextGrid, size) ==
    IF v.isAnimating
    THEN [v |-> v, ret |-> FALSE]
    ELSE LET Appears(c) == currentGrid[c[2]][c[1]] = 0 /\ nextGrid[c[2]][c[1]] = 1
             Dies(c) == currentGrid[c[2]][c[1]] = 1 /\ nextGrid[c[2]][c[1]] = 0
             Stays(c) == currentGrid[c[2]][c[1]] = 1
             HasBlob(c) == v.blobsMap[c] # 0
             appearing == SelectSeq(CellOrder(size), Appears)
             disappearing == SelectSeq(CellOrder(size), Dies)
             found == SelectSeq(disappearing, HasBlob)
             ids == FreshIds(InUse(v), Len(appearing))
             changes == [appearingCells |-> appearing,
                         disappearingCells |-> disappearing,
                         persistentCells |-> SelectSeq(CellOrder(size), Stays),
                         newBlobs |-> ids,
                         blobsToRemove |-> [i \in DOMAIN found |-> v.blobsMap[found[i]]]]
         IN  [v |-> [v EXCEPT
                        !.pendingChanges = <<changes>>,
                        !.heap = [b \in (DOMAIN v.heap) \cup RangeSeq(ids) |->
                                    IF b \in RangeSeq(ids)
                                    THEN LET c == appearing[CHOOSE i \in DOMAIN ids : ids[i] = b]
                                         IN  createBlob(c[1], c[2], FALSE)
                                    ELSE v.heap[b]]],
              ret |-> TRUE]

\* BlobVisualizer.prepareNextGeneration
prepareNextGeneration(v, currentGrid, nextGrid, size) ==
    IF v.isAnimating
    THEN [v |-> v, ret |-> FALSE]
    ELSE LET Appears(c) == currentGrid[c[2]][c[1]] = 0 /\ nextGrid[c[2]][c[1]] = 1
             Dies(c) == currentGrid[c[2]][c[1]] = 1 /\ nextGrid[c[2]][c[1]] = 0
             Stays(c) == currentGrid[c[2]][c[1]] = 1 /\ nextGrid[c[2]][c[1]] = 1
             HasBlob(c) == v.blobsMap[c] # 0
             appearing == SelectSeq(CellOrder(size), Appears)
             disappearing == SelectSeq(CellOrder(size), Dies)
             found == SelectSeq(disappearing, HasBlob)
             ids == FreshIds(InUse(v), Len(appearing))
             changes == [appearingCells |-> appearing,
                         disappearingCells |-> disappearing,
                         persistentCells |-> SelectSeq(CellOrder(size), Stays),
                         newBlobs |-> ids,
                         blobsToRemove |-> [i \in DOMAIN found |-> v.blobsMap[found[i]]]]
         IN  [v |-> [v EXCEPT
                        !.pendingChanges = <<changes>>,
                        !.heap = [b \in (DOMAIN v.heap) \cup RangeSeq(ids) |->
                                    IF b \in RangeSeq(ids)
                                    THEN LET c == appearing[CHOOSE i \in DOMAIN ids : ids[i] = b]
                                         IN  createBlob(c[1], c[2], FALSE)
                                    ELSE v.heap[b]]],
              ret |-> TRUE]

\* an animateNextGeneration that tests pendingChanges only
animateNextGenerationWhileBusy(v) ==
    IF v.pendingChanges = <<>>
    THEN [v |-> v, ret |-> FALSE]
    ELSE LET changes == v.pendingChanges[1]
         IN  [v |-> [v EXCEPT
                        !.isAnimating = TRUE,
                        !.chains = Append(@, [changes |-> changes, phase |-> "shrink",
                                              waiting |-> changes.blobsToRemove,
                                              discarded |-> FALSE])],
              ret |-> TRUE]

\* BlobVisualizer.animateNextGeneration, up to its return: the shrink tweens
\* are started and the chain waits for the onComplete of each of them.
\* waiting lists the promises not yet resolved. The tweens of one phase are
\* made in one loop with one duration and complete in the order made; the
\* reaction of Promise.all reads nothing of the order, only that none is left.
\* discarded is history: a reset was made since the chain started.
animateNextGeneration(v) ==
    IF v.pendingChanges = <<>> \/ v.isAnimating
    THEN [v |-> v, ret |-> FALSE]
    ELSE LET changes == v.pendingChanges[1]
         IN  [v |-> [v EXCEPT
                        !.isAnimating = TRUE,
                        !.chains = Append(@, [changes |-> changes, phase |-> "shrink",
                                              waiting |-> changes.blobsToRemove,
                                              discarded |-> FALSE])],
              ret |-> TRUE]

\* BlobVisualizer.updateBlobs
updateBlobs(v, currentGrid, nextGrid, size) ==
    LET p == prepareNextGeneration(v, currentGrid, nextGrid, size)
    IN  IF p.ret
        THEN [v |-> animateNextGeneration(p.v).v, ret |-> TRUE]
        ELSE [v |-> p.v, ret |-> FALSE]

\* resetBlobs without the two assignments that end the transition
resetBlobsKeepsTransition(v, g, size) ==
    createBlobs([RemoveChildren(v) EXCEPT
                          !.blobs = <<>>, !.blobsMap = EmptyMap(size),
                          !.organismGroups = <<>>, !.metaballsMap = <<>>,
                          !.chains = [i \in DOMAIN @ |-> [@[i] EXCEPT !.discarded = TRUE]]],
                g, size)

\* BlobVisualizer.resetBlobs. Nothing cancels the tweens and promises of a
\* transition that is running: its chain stays.
resetBlobs(v, g, size) ==
    createBlobs([RemoveChildren(v) EXCEPT
                          !.blobs = <<>>, !.blobsMap = EmptyMap(size),
                          !.organismGroups = <<>>, !.pendingChanges = <<>>,
                          !.isAnimating = FALSE, !.metaballsMap = <<>>,
                          !.chains = [i \in DOMAIN @ |-> [@[i] EXCEPT !.discarded = TRUE]]],
                g, size)

RemoveAt(s, i) == [j \in 1 .. (Len(s) - 1) |-> IF j < i THEN s[j] ELSE s[j + 1]]

\* the reaction of Promise.all(shrinkPromises) of the i-th chain: the dying
\* blobs leave the bookkeeping, the new ones enter it, the organisms are
\* rebuilt, and the grow tweens are started
shrinkJoined(v, i, size) ==
    LET changes == v.chains[i].changes
        gone == RangeSeq(changes.blobsToRemove)
        goneKeys == {KeyOf(v.heap, b) : b \in gone}
        Kept(b) == b \notin gone
        new == changes.newBlobs
        NewAt(c) == {j \in DOMAIN new : KeyOf(v.heap, new[j]) = c}
        v1 == [v EXCEPT
                !.blobsMap = [c \in Cells(size) |->
                                IF NewAt(c) # {}
                                THEN new[CHOOSE j \in NewAt(c) : TRUE]
                                ELSE IF c \in goneKeys THEN 0 ELSE v.blobsMap[c]],
                !.blobs = SelectSeq(v.blobs, Kept) \o new]
        v2 == createMetaballOrganisms(identifyOrganismGroups(v1, size))
    IN  [v2 EXCEPT
            !.heap = [b \in DOMAIN v2.heap |->
                        IF b \in RangeSeq(new)
                        THEN [v2.heap[b] EXCEPT !.visible = TRUE]
                        ELSE v2.heap[b]],
            !.chains[i].phase = "grow",
            !.chains[i].waiting = new]

\* a grow reaction that ends the chain and leaves isAnimating and
\* pendingChanges as they are
growJoinedStaysBusy(v, i) ==
    LET v1 == [v EXCEPT
                !.heap = [b \in DOMAIN v.heap |->
                            IF b \in RangeSeq(v.blobs)
                            THEN [v.heap[b] EXCEPT !.isNew = FALSE]
                            ELSE v.heap[b]]]
        v2 == updateMetaballPositions(v1)
    IN  [v2 EXCEPT !.chains = RemoveAt(@, i)]

\* the reaction of Promise.all(growPromises) of the i-th chain
growJoined(v, i) ==
    LET v1 == [v EXCEPT
                !.heap = [b \in DOMAIN v.heap |->
                            IF b \in RangeSeq(v.blobs)
                            THEN [v.heap[b] EXCEPT !.isNew = FALSE]
                            ELSE v.heap[b]]]
        v2 == updateMetaballPositions(v1)
    IN  [v2 EXCEPT !.pendingChanges = <<>>, !.isAnimating = FALSE,
                   !.chains = RemoveAt(@, i)]

\* BlobVisualizer.update, called in every frame: the wobble sets the scale of
\* each visible blob of this.blobs that has no tween running, and the
\* aggregates are moved while no animation runs
update(v) ==
    LET tweening == UNION {RangeSeq(v.chains[i].waiting) : i \in DOMAIN v.chains}
        v1 == [v EXCEPT
                !.heap = [b \in DOMAIN v.heap |->
                            IF b \in RangeSeq(v.blobs) /\ v.heap[b].visible
                               /\ b \notin tweening
                            THEN [v.heap[b] EXCEPT !.tiny = FALSE]
                            ELSE v.heap[b]]]
    IN  IF v1.isAnimating THEN v1 ELSE updateMetaballPositions(v1)

(***************************************************************************)
(* GameOfLife3DApp: the handlers step and reset, the tweens' onComplete    *)
(* callbacks and the promise reactions.                                    *)
(***************************************************************************)
Viz ==
    [heap |-> heap, blobs |-> blobs, blobsMap |-> blobsMap,
     organismGroups |-> organismGroups, metaballsMap |-> metaballsMap,
     metaballs |-> metaballs,
     pendingChanges |-> pendingChanges, isAnimating |-> isAnimating,
     chains |-> chains]

NewViz(size) ==
    [heap |-> <<>>, blobs |-> <<>>, blobsMap |-> EmptyMap(size),
     organismGroups |-> <<>>, metaballsMap |-> <<>>, metaballs |-> <<>>,
     pendingChanges |-> <<>>, isAnimating |-> FALSE, chains |-> <<>>]

SetViz(w) ==
    LET v == Collect(w)
    IN  /\ heap' = v.heap
        /\ blobs' = v.blobs
        /\ blobsMap' = v.blobsMap
        /\ organismGroups' = v.organismGroups
        /\ metaballsMap' = v.metaballsMap
        /\ metaballs' = v.metaballs
        /\ pendingChanges' = v.pendingChanges
        /\ isAnimating' = v.isAnimating
        /\ chains' = v.chains

\* the grids GameOfLife.reset makes here are taken from these cells:
\* a row of three across the left and right edges, a cell above its middle,
\* and cells further away
SeedCells ==
    << <<0, 1>>, <<1, 1>>, <<N - 1, 1>>, <<0, 0>>, <<1, 0>>, <<2, 2>>, <<1, 3>> >>

\* a 2 x 2 block, which the rule leaves as it is
StillLife == {<<0, 0>>, <<1, 0>>, <<0, 1>>, <<1, 1>>}

SeedGrids ==
    {GridOf(S, N) : S \in SUBSET {SeedCells[i] : i \in 1 .. Min(SeedBits, Len(SeedCells))}}
    \cup {GridOf(StillLife, N)}

\* Promise.race in place of Promise.all: the reaction is queued when the
\* first promise of the list is resolved
ReadyChainsAfterFirst ==
    {i \in DOMAIN chains :
        \/ chains[i].waiting = <<>>
        \/ /\ chains[i].phase = "shrink"
           /\ Len(chains[i].waiting) < Len(chains[i].changes.blobsToRemove)}

\* Promise.all(...).then: the reaction of a chain is queued when each of its
\* promises is resolved, and a queued reaction runs before any other handler
ReadyChains == {i \in DOMAIN chains : chains[i].waiting = <<>>}

\* the constructors of GameOfLife and BlobVisualizer
Init ==
    /\ grid \in SeedGrids
    /\ call = NoCall
    /\ LET v == Collect(createBlobs(NewViz(N), grid, N))
       IN  /\ heap = v.heap
           /\ blobs = v.blobs
           /\ blobsMap = v.blobsMap
           /\ organismGroups = v.organismGroups
           /\ metaballsMap = v.metaballsMap
           /\ metaballs = v.metaballs
           /\ pendingChanges = v.pendingChanges
           /\ isAnimating = v.isAnimating
           /\ chains = v.chains
    /\ baseGrid = grid
    /\ nCalls = 0
    /\ app = AppStart

\* a step that stores the rows of the next grid only down to the first row
\* that has a change
stepPartial(v, g, size) ==
    LET nextGrid == computeNextGeneration(g, size)
        r == updateBlobs(v, g, nextGrid, size)
        changed == {y \in Coords(size) : nextGrid[y] # g[y]}
    IN  [v |-> r.v,
         grid |-> [y \in Coords(size) |->
                     IF \E z \in changed : z < y THEN g[y] ELSE nextGrid[y]],
         accepted |-> r.ret]

\* GameOfLife3DApp.step: the next grid is computed, handed to updateBlobs
\* with the current one, and stored whatever updateBlobs returned
step(v, g, size) ==
    LET nextGrid == computeNextGeneration(g, size)
        r == updateBlobs(v, g, nextGrid, size)
    IN  [v |-> r.v, grid |-> nextGrid, accepted |-> r.ret]

Step ==
    /\ ReadyChains = {}
    /\ nCalls < MaxCalls
    /\ LET r == step(Viz, grid, N)
       IN  /\ SetViz(r.v)
           /\ grid' = r.grid
           /\ call' = [op |-> "step", accepted |-> r.accepted]
    /\ nCalls' = nCalls + 1
    /\ UNCHANGED <<baseGrid, app>>

\* GameOfLife3DApp.reset: game.reset makes any grid
Reset ==
    /\ ReadyChains = {}
    /\ nCalls < MaxCalls
    /\ \E g \in SeedGrids :
          /\ grid' = g
          /\ baseGrid' = g
          /\ SetViz(resetBlobs(Viz, g, N))
    /\ call' = [op |-> "reset"]
    /\ nCalls' = nCalls + 1
    /\ UNCHANGED app

\* the next shrink tween of the i-th chain ends: the scale of its blob is
\* 0.01 and onComplete resolves the promise
ShrinkComplete ==
    /\ ReadyChains = {}
    /\ \E i \in DOMAIN chains :
          /\ chains[i].phase = "shrink"
          /\ chains' = [chains EXCEPT ![i].waiting = Tail(@)]
          /\ heap' = [heap EXCEPT ![Head(chains[i].waiting)].tiny = TRUE]
          /\ call' = [op |-> "shrinkComplete"]
    /\ UNCHANGED <<grid, blobs, blobsMap, organismGroups, metaballsMap, metaballs,
                   pendingChanges, isAnimating, baseGrid, nCalls, app>>

\* the next grow tween of the i-th chain ends: the scale of its blob is 1
\* and onComplete resolves the promise
GrowComplete ==
    /\ ReadyChains = {}
    /\ \E i \in DOMAIN chains :
          /\ chains[i].phase = "grow"
          /\ chains' = [chains EXCEPT ![i].waiting = Tail(@)]
          /\ heap' = [heap EXCEPT ![Head(chains[i].waiting)].tiny = FALSE]
          /\ call' = [op |-> "growComplete"]
    /\ UNCHANGED <<grid, blobs, blobsMap, organismGroups, metaballsMap, metaballs,
                   pendingChanges, isAnimating, baseGrid, nCalls, app>>

\* microtask: the reaction of Promise.all(shrinkPromises)
ShrinkJoin ==
    /\ \E i \in ReadyChains :
          /\ chains[i].phase = "shrink"
          /\ SetViz(shrinkJoined(Viz, i, N))
          /\ call' = [op |-> "shrinkJoined"]
    /\ UNCHANGED <<grid, baseGrid, nCalls, app>>

\* microtask: the reaction of Promise.all(growPromises)
GrowJoin ==
    /\ \E i \in ReadyChains :
          /\ chains[i].phase = "grow"
          /\ SetViz(growJoined(Viz, i))
          /\ call' = [op |-> "growJoined"]
    /\ UNCHANGED <<grid, baseGrid, nCalls, app>>

Next ==
    \/ Step
    \/ Reset
    \/ ShrinkComplete
    \/ GrowComplete
    \/ ShrinkJoin
    \/ GrowJoin

Spec == Init /\ [][Next]_vars

(***************************************************************************)
(* The visualizer driven through its methods one by one:                   *)
(* prepareNextGeneration and animateNextGeneration called from separate    *)
(* handlers with the grids step would pass (the caller stores the next     *)
(* grid once the animation is accepted), resetBlobs through reset, and     *)
(* update in the frames between them.                                      *)
(***************************************************************************)
ApiPrepare ==
    /\ ReadyChains = {}
    /\ nCalls < MaxCalls
    /\ LET r == prepareNextGeneration(Viz, grid, computeNextGeneration(grid, N), N)
       IN  /\ SetViz(r.v)
           /\ call' = [op |-> "prepareNextGeneration", ret |-> r.ret]
    /\ nCalls' = nCalls + 1
    /\ UNCHANGED <<grid, baseGrid, app>>

ApiAnimate ==
    /\ ReadyChains = {}
    /\ nCalls < MaxCalls
    /\ LET r == animateNextGeneration(Viz)
       IN  /\ SetViz(r.v)
           /\ grid' = IF r.ret THEN computeNextGeneration(grid, N) ELSE grid
           /\ call' = [op |-> "animateNextGeneration", ret |-> r.ret]
    /\ nCalls' = nCalls + 1
    /\ UNCHANGED <<baseGrid, app>>

\* a frame of GameOfLife3DApp.animate in which no step is made:
\* blobVisualizer.update
Update ==
    /\ ReadyChains = {}
    /\ SetViz(update(Viz))
    /\ UNCHANGED <<grid, call, baseGrid, nCalls, app>>

NextApi ==
    \/ ApiPrepare
    \/ ApiAnimate
    \/ Reset
    \/ Update
    \/ ShrinkComplete
    \/ GrowComplete
    \/ ShrinkJoin
    \/ GrowJoin

SpecApi == Init /\ [][NextApi]_vars

(***************************************************************************)
(* identifyOrganismGroups alone: called on the bookkeeping of any list of  *)
(* blobs on distinct cells, in any order of the list, then called again    *)
(* with the same blobs in another order.                                   *)
(***************************************************************************)
\* cells next to each other, next to each other through the wrap, and apart
ClusterCells ==
    << <<0, 0>>, <<N - 1, N - 1>>, <<0, 1>>, <<2, 2>>, <<2, 0>>, <<1, 2>>, <<N - 1, 1>> >>

ClusterLists ==
    LET pool == 1 .. Min(ClusterBits, Len(ClusterCells))
    IN  UNION {{[i \in 1 .. k |-> ClusterCells[f[i]]] :
                   f \in {h \in [1 .. k -> pool] :
                             \A i, j \in 1 .. k : i # j => h[i] # h[j]}} :
               k \in 0 .. ClusterLive}

InitCluster ==
    /\ \E cells \in ClusterLists :
          /\ grid = GridOf(RangeSeq(cells), N)
          /\ heap = [b \in DOMAIN cells |-> createBlob(cells[b][1], cells[b][2], TRUE)]
          /\ blobs = [b \in DOMAIN cells |-> b]
          /\ blobsMap = [c \in Cells(N) |->
                            IF \E b \in DOMAIN cells : cells[b] = c
                            THEN CHOOSE b \in DOMAIN cells : cells[b] = c
                            ELSE 0]
    /\ organismGroups = <<>>
    /\ metaballsMap = <<>>
    /\ metaballs = <<>>
    /\ pendingChanges = <<>>
    /\ isAnimating = FALSE
    /\ chains = <<>>
    /\ baseGrid = grid
    /\ nCalls = 0
    /\ app = AppStart
    /\ call = [op |-> "none", n |-> 0]

CallIdentifyOrganismGroups ==
    /\ call.n < 2
    /\ SetViz(identifyOrganismGroups(Viz, N))
    /\ call' = [op |-> "identifyOrganismGroups", n |-> call.n + 1]
    /\ UNCHANGED <<grid, baseGrid, nCalls, app>>

\* the same blobs in another order: the first two exchanged, or the first
\* moved to the end (the two generate every order)
PermuteBlobs ==
    /\ call.op = "identifyOrganismGroups"
    /\ call.n = 1
    /\ Len(blobs) >= 2
    /\ \/ blobs' = <<blobs[2], blobs[1]>> \o SubSeq(blobs, 3, Len(blobs))
       \/ blobs' = Tail(blobs) \o <<Head(blobs)>>
    /\ call' = [op |-> "permute", n |-> 1]
    /\ UNCHANGED <<grid, heap, blobsMap, organismGroups, metaballsMap, metaballs,
                   pendingChanges, isAnimating, chains, baseGrid, nCalls, app>>

NextCluster ==
    \/ CallIdentifyOrganismGroups
    \/ PermuteBlobs

SpecCluster == InitCluster /\ [][NextCluster]_vars

(***************************************************************************)
(* The grid automaton alone: getChangedCells called with the grid and      *)
(* another grid of the same size.                                          *)
(***************************************************************************)
DiffGrids ==
    {GridOf(S, N) : S \in SUBSET {SeedCells[i] : i \in 1 .. Min(DiffBits, Len(SeedCells))}}

InitDiff ==
    /\ grid \in DiffGrids
    /\ call = NoCall
    /\ NoApp

CallGetChangedCells ==
    /\ \E newGrid \in DiffGrids :
          call' = [op |-> "getChangedCells", old |-> grid, new |-> newGrid,
                   ret |-> getChangedCells(grid, newGrid, N)]
    /\ UNCHANGED grid
    /\ UNCHANGED appVars

NextDiff == CallGetChangedCells

SpecDiff == InitDiff /\ [][NextDiff]_vars

(***************************************************************************)
(* Statements about the grid automaton.                                    *)
(***************************************************************************)
\* the number of the 8 offsets around (x, y) whose cell, taken modulo size
\* (mathematical modulo, result in 0..size-1), is alive
ToroidalLive(g, size, x, y) ==
    Cardinality({d \in ((-1 .. 1) \X (-1 .. 1)) \ {<<0, 0>>} :
                    g[(y + d[2]) % size][(x + d[1]) % size] = 1})

ConwayRule(cell, n) ==
    IF (cell = 1 /\ n \in {2, 3}) \/ (cell = 0 /\ n = 3) THEN 1 ELSE 0

\* C7: computeNextGeneration returns a grid of the same size whose every cell
\* is 1 exactly when the cell was alive with 2 or 3 live toroidal neighbours
\* or dead with exactly 3, and 0 otherwise.
C7_RuleCorrect ==
    call.op = "computeNextGeneration" =>
        /\ DOMAIN call.ret = Coords(N)
        /\ \A y \in Coords(N) :
              /\ DOMAIN call.ret[y] = Coords(N)
              /\ \A x \in Coords(N) :
                    call.ret[y][x] =
                        ConwayRule(call.arg[y][x], ToroidalLive(call.arg, N, x, y))

\* a call whose grid has a survivor, a death by overpopulation, a death by
\* underpopulation and a birth in the last column, whose neighbours wrap
C7_Witness ==
    /\ call.op = "computeNextGeneration"
    /\ \E c \in Cells(N) : call.arg[c[2]][c[1]] = 1 /\ call.ret[c[2]][c[1]] = 1
    /\ \E c \in Cells(N) : /\ call.arg[c[2]][c[1]] = 1
                           /\ call.ret[c[2]][c[1]] = 0
                           /\ ToroidalLive(call.arg, N, c[1], c[2]) > 3
    /\ \E c \in Cells(N) : /\ call.arg[c[2]][c[1]] = 1
                           /\ call.ret[c[2]][c[1]] = 0
                           /\ ToroidalLive(call.arg, N, c[1], c[2]) < 2
    /\ \E y \in Coords(N) : call.arg[y][N - 1] = 0 /\ call.ret[y][N - 1] = 1

C11_NeighborCount ==
    call.op = "countNeighbors" =>
        /\ call.ret = ToroidalLive(grid, N, call.x, call.y)
        /\ call.ret \in 0 .. 8

\* only (0, 0) is alive and the count at the opposite corner is 1
C11_Witness ==
    /\ call.op = "countNeighbors"
    /\ LiveCells(grid, N) = {<<0, 0>>}
    /\ call.x = N - 1
    /\ call.y = N - 1
    /\ call.ret = 1

\* C15: getChangedCells returns one entry for each cell where the two grids
\* differ, with the state of the new grid, none for a cell where they agree,
\* and the empty list for equal grids.
C15_DiffExact ==
    call.op = "getChangedCells" =>
        /\ \A c \in Cells(N) :
              Cardinality({i \in DOMAIN call.ret :
                              call.ret[i].x = c[1] /\ call.ret[i].y = c[2]})
                 = IF call.old[c[2]][c[1]] # call.new[c[2]][c[1]] THEN 1 ELSE 0
        /\ \A i \in DOMAIN call.ret :
              /\ <<call.ret[i].x, call.ret[i].y>> \in Cells(N)
              /\ call.ret[i].state = call.new[call.ret[i].y][call.ret[i].x]
        /\ (call.old = call.new => call.ret = <<>>)

\* a call on grids with a cell that is born, one that dies and one that stays
C15_Witness ==
    /\ call.op = "getChangedCells"
    /\ \E i \in DOMAIN call.ret : call.ret[i].state = 1
    /\ \E i \in DOMAIN call.ret : call.ret[i].state = 0
    /\ LiveCells(call.old, N) \cap LiveCells(call.new, N) # {}

\* C10: getCell is defined for every integer pair and returns the state of the
\* cell at (x mod size, y mod size), with mod in 0..size-1.
C10_GetCellTotal ==
    call.op = "getCell" =>
        call.ret = [tag |-> "value", val |-> grid[call.y % N][call.x % N]]


(***************************************************************************)
(* Statements about the transitions of the visualizer.                     *)
(***************************************************************************)
Idle == ~isAnimating /\ pendingChanges = <<>>

\* the places <<i, j>> of the organism list whose blob lies on cell c
PlacesOf(c) ==
    {p \in UNION {{<<i, j>> : j \in DOMAIN organismGroups[i].blobs} :
                     i \in DOMAIN organismGroups} :
        KeyOf(heap, organismGroups[p[1]].blobs[p[2]]) = c}

\* every live cell of g is in exactly one organism, once, and no dead cell is
OrganismsPartition(g) ==
    \A c \in Cells(N) : Cardinality(PlacesOf(c)) = g[c[2]][c[1]]

\* 8-neighbour adjacency on the torus
Adjacent(a, b, size) ==
    /\ a # b
    /\ (a[1] - b[1]) % size \in {0, 1, size - 1}
    /\ (a[2] - b[2]) % size \in {0, 1, size - 1}

RECURSIVE Reachable(_, _, _)
Reachable(S, live, size) ==
    LET T == S \cup {c \in live : \E d \in S : Adjacent(c, d, size)}
    IN  IF T = S THEN S ELSE Reachable(T, live, size)

\* the maximal connected sets of live cells
Components(live, size) == {Reachable({c}, live, size) : c \in live}

OrganismCellSets ==
    {{KeyOf(heap, organismGroups[i].blobs[j]) : j \in DOMAIN organismGroups[i].blobs} :
        i \in DOMAIN organismGroups}

ChainBlobs ==
    UNION {RangeSeq(chains[i].changes.newBlobs)
           \cup RangeSeq(chains[i].changes.blobsToRemove) : i \in DOMAIN chains}

\* C1: at most one transition has shrink, regroup or grow callbacks outstanding.
C1_OneInFlight == Len(chains) <= 1

\* C2: within a transition the regroup runs only when every shrink callback of
\* blobsToRemove has fired, it takes the dying blobs out of blobs and blobsMap,
\* puts the new ones in and rebuilds the organisms without the dying blobs in
\* one step, and no new blob is visible or in the bookkeeping before that step.
C2_PhasesOrdered ==
    /\ [](\A i \in DOMAIN chains :
            chains[i].phase = "shrink" =>
                \A b \in RangeSeq(chains[i].changes.newBlobs) :
                    ~heap[b].visible /\ b \notin RangeSeq(blobs))
    /\ [][\A i \in DOMAIN chains :
            (/\ chains[i].phase = "shrink"
             /\ \E d \in RangeSeq(chains') :
                   d.changes = chains[i].changes /\ d.phase = "grow")
            => /\ chains[i].waiting = <<>>
               /\ RangeSeq(chains[i].changes.blobsToRemove) \cap RangeSeq(blobs') = {}
               /\ RangeSeq(chains[i].changes.newBlobs) \subseteq RangeSeq(blobs')
               /\ \A b \in RangeSeq(chains[i].changes.newBlobs) :
                     heap'[b].visible /\ blobsMap'[KeyOf(heap', b)] = b
               /\ \A g \in RangeSeq(organismGroups') :
                     RangeSeq(g.blobs) \cap RangeSeq(chains[i].changes.blobsToRemove) = {}
          ]_vars

\* the regroup of a transition with two dying and two appearing blobs has run
C2_Witness ==
    /\ call.op = "shrinkJoined"
    /\ \E i \in DOMAIN chains :
          /\ chains[i].phase = "grow"
          /\ Len(chains[i].changes.blobsToRemove) >= 2
          /\ Len(chains[i].waiting) >= 2

\* C3: prepareNextGeneration called while a PendingTransition is stored or an
\* animation runs returns false and leaves pendingChanges as it was.
C3_BusyRejected ==
    [][(ApiPrepare /\ (pendingChanges # <<>> \/ isAnimating))
          => (call'.ret = FALSE /\ pendingChanges' = pendingChanges)]_vars

\* C4: whenever the orchestrator is Idle the organisms partition exactly the
\* live cells of game.grid.
C4_IdlePartition == Idle => OrganismsPartition(grid)

\* C5: when reset returns, isAnimating is false, pendingChanges is null, and
\* blobs, blobsMap and organismGroups are the cells and the connected
\* components of the new grid, made of new visible blobs only.
C5_ResetToIdle ==
    call.op = "reset" =>
        /\ Idle
        /\ LET IsLive(c) == grid[c[2]][c[1]] = 1
           IN  [i \in DOMAIN blobs |-> KeyOf(heap, blobs[i])]
                   = SelectSeq(CellOrder(N), IsLive)
        /\ \A c \in Cells(N) :
              IF grid[c[2]][c[1]] = 1
              THEN blobsMap[c] \in RangeSeq(blobs) /\ KeyOf(heap, blobsMap[c]) = c
              ELSE blobsMap[c] = 0
        /\ OrganismsPartition(grid)
        /\ OrganismCellSets = Components(LiveCells(grid, N), N)
        /\ RangeSeq(blobs) \cap ChainBlobs = {}
        /\ \A b \in RangeSeq(blobs) : heap[b].visible /\ ~heap[b].isNew

\* reset was called while the shrink tweens of a transition were running
C5_Witness ==
    /\ call.op = "reset"
    /\ \E i \in DOMAIN chains : chains[i].phase = "shrink" /\ chains[i].waiting # <<>>
    /\ Len(organismGroups) >= 2

\* C6: the reactions of a transition discarded by reset change none of blobs,
\* blobsMap, organismGroups, pendingChanges and isAnimating.
C6_DiscardedInert ==
    [][((ShrinkJoin \/ GrowJoin) /\ \E i \in ReadyChains : chains[i].discarded)
          => UNCHANGED <<blobs, blobsMap, organismGroups, pendingChanges, isAnimating>>]_vars

\* the grid of the rule, cell by cell
ConwayGrid(g, size) ==
    [y \in Coords(size) |-> [x \in Coords(size) |->
        ConwayRule(g[y][x], ToroidalLive(g, size, x, y))]]

RECURSIVE Generations(_, _, _)
Generations(g, size, k) ==
    IF k = 0 THEN g ELSE Generations(ConwayGrid(g, size), size, k - 1)

\* C9: game.grid is always some whole number of generations after the grid of
\* the last reset, and an accepted step classifies the cells against the
\* complete next grid, the one it stores.
C9_GridWhole ==
    /\ [](\E k \in 0 .. MaxCalls : grid = Generations(baseGrid, N, k))
    /\ [][Step =>
            /\ grid' = ConwayGrid(grid, N)
            /\ call'.accepted =>
                  /\ pendingChanges' # <<>>
                  /\ RangeSeq(pendingChanges'[1].appearingCells)
                        = LiveCells(grid', N) \ LiveCells(grid, N)
                  /\ RangeSeq(pendingChanges'[1].disappearingCells)
                        = LiveCells(grid, N) \ LiveCells(grid', N)
          ]_vars

\* a step was refused while the animation of the step before it was still
\* running, and the grid is two generations after the reset grid
C9_Witness ==
    /\ call.op = "step"
    /\ ~call.accepted
    /\ chains # <<>>
    /\ grid = Generations(baseGrid, N, 2)
    /\ Generations(baseGrid, N, 1) # grid
    /\ LiveCells(grid, N) # {}

(***************************************************************************)
(* Statements about identifyOrganismGroups.                                *)
(***************************************************************************)
\* the place in this.blobs of the first blob of the i-th organism that is
\* in this.blobs
FirstIndex(i) ==
    CHOOSE k \in DOMAIN blobs :
        /\ blobs[k] \in RangeSeq(organismGroups[i].blobs)
        /\ \A h \in 1 .. (k - 1) : blobs[h] \notin RangeSeq(organismGroups[i].blobs)

\* C12: after identifyOrganismGroups every blob of this.blobs is listed once
\* in one organism and no other blob is, the i-th organism (from 0) has id i,
\* its members have organismId i, and the organisms come in the order in which
\* this.blobs reaches their first blob.
C12_OneOrganismEach ==
    call.op = "identifyOrganismGroups" =>
        /\ \A b \in RangeSeq(blobs) :
              Cardinality({p \in UNION {{<<i, j>> : j \in DOMAIN organismGroups[i].blobs} :
                                           i \in DOMAIN organismGroups} :
                              organismGroups[p[1]].blobs[p[2]] = b}) = 1
        /\ OrganismsPartition(grid)
        /\ \A i \in DOMAIN organismGroups :
              /\ organismGroups[i].id = i - 1
              /\ organismGroups[i].blobs # <<>>
              /\ \A b \in RangeSeq(organismGroups[i].blobs) : heap[b].organismId = i - 1
              /\ organismGroups[i].blobs[1] = blobs[FirstIndex(i)]
        /\ \A i, j \in DOMAIN organismGroups : i < j => FirstIndex(i) < FirstIndex(j)

\* three organisms were found, one of them with two blobs
C12_Witness ==
    /\ call.op = "identifyOrganismGroups"
    /\ Len(organismGroups) = 3
    /\ \E i \in DOMAIN organismGroups : Len(organismGroups[i].blobs) = 2

\* C13: the organisms are the maximal sets of live cells joined by paths of
\* cells adjacent on the torus.
C13_Components ==
    call.op = "identifyOrganismGroups" =>
        OrganismCellSets = Components(LiveCells(grid, N), N)

\* (0, 0) and (N-1, N-1) touch through the wrap and are one organism, and a
\* cell apart from both is another
C13_Witness ==
    /\ call.op = "identifyOrganismGroups"
    /\ {<<0, 0>>, <<N - 1, N - 1>>} \in OrganismCellSets
    /\ Len(organismGroups) = 2

\* C14: called again on the same blobs in another order,
\* identifyOrganismGroups makes the same set of member sets.
C14_OrderFree ==
    [][(CallIdentifyOrganismGroups /\ call.n = 1)
          => OrganismCellSets' = OrganismCellSets]_vars

\* the second call met the blobs in another order, found an organism of three
\* blobs and another one, and numbered them otherwise than the first call
C14_Witness ==
    /\ call.op = "identifyOrganismGroups"
    /\ call.n = 2
    /\ blobs # [b \in DOMAIN blobs |-> b]
    /\ Len(organismGroups) = 2
    /\ \E i \in DOMAIN organismGroups : Len(organismGroups[i].blobs) = 3
    /\ heap[1].organismId # 0

(***************************************************************************)
(* Statements about transitions that change nothing, the end of the grow   *)
(* phase and the placeholders.                                             *)
(***************************************************************************)
\* the changes of a prepare whose two grids were equal
Noop(changes) == changes.appearingCells = <<>> /\ changes.disappearingCells = <<>>

\* the organisms as sets of blob objects
OrganismBlobSets == {RangeSeq(organismGroups[i].blobs) : i \in DOMAIN organismGroups}

\* C16: a step whose next grid equals the grid starts a transition that waits
\* for no shrink and no grow completion; while it lasts blobs, blobsMap and
\* the membership of the organisms stay as they were, and when it ends the
\* orchestrator is Idle.
C16_NoopTransition ==
    /\ [](\A i \in DOMAIN chains :
            Noop(chains[i].changes) =>
                /\ chains[i].waiting = <<>>
                /\ chains[i].changes.blobsToRemove = <<>>
                /\ chains[i].changes.newBlobs = <<>>)
    /\ [][(Step /\ computeNextGeneration(grid, N) = grid /\ call'.accepted)
            => /\ Len(chains') = Len(chains) + 1
               /\ Noop(chains'[Len(chains')].changes)
               /\ UNCHANGED <<blobs, blobsMap, organismGroups>>
          ]_vars
    /\ [][(\E i \in DOMAIN chains : Noop(chains[i].changes))
            => /\ UNCHANGED <<blobs, blobsMap>>
               /\ OrganismBlobSets' = OrganismBlobSets
               /\ Len(chains') <= Len(chains)
               /\ (Len(chains') < Len(chains) => Idle')
          ]_vars

\* the transition of a step on the 2 x 2 block, the only step made, has ended
C16_Witness ==
    /\ call.op = "growJoined"
    /\ nCalls = 1
    /\ grid = baseGrid
    /\ LiveCells(grid, N) = StillLife
    /\ Len(blobs) = 4
    /\ Len(organismGroups) = 1
    /\ Idle

\* C17: when prepare finds no appearing and no disappearing cell, the
\* orchestrator is Idle when step returns, and no reaction re-clusters or
\* rebuilds the aggregates for that transition.
C17_NoopImmediate ==
    /\ [][(Step /\ call'.accepted /\ Noop(chains'[Len(chains')].changes))
            => Idle']_vars
    /\ [][ShrinkJoin
            => \A i \in ReadyChains :
                  chains[i].phase = "shrink" => ~Noop(chains[i].changes)]_vars

\* the chains of the next state that carry the changes of chain c
Continues(c) == {j \in DOMAIN chains' : chains'[j].changes = c.changes}

\* C18: isAnimating is true as long as a transition that no reset discarded
\* is running, and such a transition ends only when each of its grow
\* callbacks has fired, leaving pendingChanges null, isAnimating false and no
\* blob of the bookkeeping new.
C18_IdleAfterGrow ==
    /\ [](\A i \in DOMAIN chains : ~chains[i].discarded => isAnimating)
    /\ [][\A i \in DOMAIN chains :
            (~chains[i].discarded /\ Continues(chains[i]) = {})
            => /\ chains[i].phase = "grow"
               /\ chains[i].waiting = <<>>
               /\ Idle'
               /\ \A b \in RangeSeq(blobs') : ~heap'[b].isNew
          ]_vars

\* C19: from the start of a transition that no reset discarded to its
\* regroup nothing changes blobs and blobsMap, and the regroup clusters the
\* bookkeeping it found less the dying blobs plus the new ones.
C19_BookkeepingAtRegroup ==
    /\ [][\A i \in DOMAIN chains :
            (/\ ~chains[i].discarded
             /\ chains[i].phase = "shrink"
             /\ \E j \in Continues(chains[i]) :
                   chains'[j].phase = "shrink" /\ ~chains'[j].discarded)
            => UNCHANGED <<blobs, blobsMap>>
          ]_vars
    /\ [][\A i \in DOMAIN chains :
            (/\ ~chains[i].discarded
             /\ chains[i].phase = "shrink"
             /\ \E j \in Continues(chains[i]) : chains'[j].phase = "grow")
            => LET gone == RangeSeq(chains[i].changes.blobsToRemove)
                   new == RangeSeq(chains[i].changes.newBlobs)
               IN  /\ RangeSeq(blobs') = (RangeSeq(blobs) \ gone) \cup new
                   /\ Len(blobs') = Cardinality(RangeSeq(blobs'))
                   /\ \A c \in Cells(N) :
                         blobsMap'[c] =
                            IF \E b \in new : KeyOf(heap, b) = c
                            THEN CHOOSE b \in new : KeyOf(heap, b) = c
                            ELSE IF blobsMap[c] \in gone THEN 0 ELSE blobsMap[c]
                   /\ UNION OrganismBlobSets' = RangeSeq(blobs')
          ]_vars

\* the placeholders that wait for the regroup of their transition: those of
\* the stored pendingChanges whose animation has not begun or is in its
\* shrink phase, and those of every chain in its shrink phase
Placeholders ==
    LET growing == {chains[i].changes : i \in {j \in DOMAIN chains : chains[j].phase = "grow"}}
        shrinking == {chains[i].changes : i \in {j \in DOMAIN chains : chains[j].phase = "shrink"}}
        stored == RangeSeq(pendingChanges) \ growing
    IN  UNION {RangeSeq(c.newBlobs) : c \in stored \cup shrinking}

\* the blobs made by prepare that a stored pendingChanges or a chain refers
\* to. Nothing else refers to a placeholder before its regroup: one that is in
\* neither any more can be reached by no code, and its id is free
HeldPlaceholders ==
    UNION {RangeSeq(c.newBlobs) :
              c \in RangeSeq(pendingChanges) \cup {chains[i].changes : i \in DOMAIN chains}}

\* C20: a placeholder is invisible, of scale 0.01, new and outside blobs
\* until the regroup of its own transition, and the reaction that makes it
\* visible is the one that has put it in blobs and blobsMap and re-clustered.
C20_PlaceholderHidden ==
    /\ [](\A b \in Placeholders :
            /\ ~heap[b].visible
            /\ heap[b].tiny
            /\ heap[b].isNew
            /\ b \notin RangeSeq(blobs))
    /\ [][\A b \in Placeholders :
            (b \in HeldPlaceholders' /\ heap'[b].visible)
            => /\ ShrinkJoin
               /\ \E i \in ReadyChains :
                     /\ chains[i].phase = "shrink"
                     /\ b \in RangeSeq(chains[i].changes.newBlobs)
                     /\ chains'[i].phase = "grow"
               /\ b \in RangeSeq(blobs')
               /\ blobsMap'[KeyOf(heap', b)] = b
          ]_vars

\* the regroup has just made two placeholders visible, after frames in which
\* update ran while they waited
C20_Witness ==
    /\ call.op = "shrinkJoined"
    /\ \E i \in DOMAIN chains :
          /\ chains[i].phase = "grow"
          /\ Len(chains[i].waiting) >= 2
          /\ \A b \in RangeSeq(chains[i].waiting) :
                heap[b].visible /\ heap[b].isNew /\ b \in RangeSeq(blobs)
          /\ \E d \in RangeSeq(chains[i].changes.blobsToRemove) : ~heap[d].tiny

\* the MarchingCubes objects that are children of this.object
SceneMetaballs == {m \in DOMAIN metaballs : metaballs[m].parent}

\* the ids of the organisms of organismGroups that have blobs
NonEmptyOrganisms ==
    {organismGroups[i].id : i \in {j \in DOMAIN organismGroups :
                                        Len(organismGroups[j].blobs) # 0}}

\* metaballsMap holds one object for each organism with blobs, under the
\* organism's id, and the scene holds these objects and no other
MetaballsExact ==
    /\ DOMAIN metaballsMap = NonEmptyOrganisms
    /\ \A a, b \in DOMAIN metaballsMap : metaballsMap[a] = metaballsMap[b] => a = b
    /\ \A id \in DOMAIN metaballsMap :
          /\ metaballsMap[id] \in DOMAIN metaballs
          /\ metaballs[metaballsMap[id]].organism = id
    /\ SceneMetaballs = {metaballsMap[id] : id \in DOMAIN metaballsMap}

\* C28: every regroup rebuilds the aggregate visuals from scratch. After
\* createMetaballOrganisms (in the regroup of a transition, and in the
\* createBlobs of a reset) metaballsMap holds exactly one object for each
\* organism with blobs, keyed by the organism's id, and no object that
\* existed before the call is still in metaballsMap or in the scene.
C28_RebuiltFromScratch ==
    /\ [](call.op \in {"shrinkJoined", "reset"} => MetaballsExact)
    /\ [][call'.op \in {"shrinkJoined", "reset"}
            => (DOMAIN metaballs') \cap (DOMAIN metaballs) = {}]_vars

\* a regroup has replaced the objects of at least one earlier organism by
\* new ones
C28_Witness ==
    /\ call.op = "shrinkJoined"
    /\ metaballsMap # <<>>
    /\ \E m \in DOMAIN metaballs : m > Cardinality(DOMAIN metaballs)

\* the cells of the grid whose states in the two grids are the given pair
CellsWith(currentGrid, nextGrid, size, a, b) ==
    {c \in Cells(size) : currentGrid[c[2]][c[1]] = a /\ nextGrid[c[2]][c[1]] = b}

NoDuplicates(s) == \A i, j \in DOMAIN s : s[i] = s[j] => i = j

\* C21: an accepted prepareNextGeneration sorts every cell of the grid into
\* exactly one of four categories by its states in the current and the next
\* grid: appearing (0, 1), disappearing (1, 0), persistent (1, 1) and
\* untouched (0, 0), which is in no list. The three lists have no cell in
\* common, none holds a cell twice, and together they hold exactly the
\* cells that are alive in the current or in the next grid.
C21_Classified ==
    (call.op = "prepareNextGeneration" /\ call.ret) =>
        LET changes == pendingChanges[1]
            nextGrid == computeNextGeneration(grid, N)
            appearing == RangeSeq(changes.appearingCells)
            disappearing == RangeSeq(changes.disappearingCells)
            persistent == RangeSeq(changes.persistentCells)
        IN  /\ appearing = CellsWith(grid, nextGrid, N, 0, 1)
            /\ disappearing = CellsWith(grid, nextGrid, N, 1, 0)
            /\ persistent = CellsWith(grid, nextGrid, N, 1, 1)
            /\ NoDuplicates(changes.appearingCells)
            /\ NoDuplicates(changes.disappearingCells)
            /\ NoDuplicates(changes.persistentCells)
            /\ appearing \cap disappearing = {}
            /\ appearing \cap persistent = {}
            /\ disappearing \cap persistent = {}
            /\ appearing \cup disappearing \cup persistent
                    = LiveCells(grid, N) \cup LiveCells(nextGrid, N)
            /\ CellsWith(grid, nextGrid, N, 0, 0)
                    \cap (appearing \cup disappearing \cup persistent) = {}

\* an accepted prepare with cells of all four categories
C21_Witness ==
    /\ call.op = "prepareNextGeneration"
    /\ call.ret
    /\ pendingChanges[1].appearingCells # <<>>
    /\ pendingChanges[1].disappearingCells # <<>>
    /\ pendingChanges[1].persistentCells # <<>>
    /\ CellsWith(grid, computeNextGeneration(grid, N), N, 0, 0) # {}

\* C22: whenever prepareNextGeneration is accepted, newBlobs holds one
\* placeholder, at the cell's coordinate, for each cell of appearingCells,
\* and blobsToRemove holds one blob of the live-cell bookkeeping, at the
\* cell's coordinate, for each cell of disappearingCells.
C22_BlobsForCells ==
    (call.op = "step" /\ call.accepted) =>
        LET changes == pendingChanges[1]
        IN  /\ Len(changes.newBlobs) = Len(changes.appearingCells)
            /\ \A i \in DOMAIN changes.newBlobs :
                  KeyOf(heap, changes.newBlobs[i]) = changes.appearingCells[i]
            /\ NoDuplicates(changes.newBlobs)
            /\ Len(changes.blobsToRemove) = Len(changes.disappearingCells)
            /\ \A i \in DOMAIN changes.blobsToRemove :
                  /\ i \in DOMAIN changes.disappearingCells
                  /\ KeyOf(heap, changes.blobsToRemove[i]) = changes.disappearingCells[i]
            /\ NoDuplicates(changes.blobsToRemove)

(***************************************************************************)
(* The grid automaton alone: the constructor of GameOfLife and reset,      *)
(* given any size and density. A density is written in tenths (5 is 0.5),  *)
(* and so is a value of Math.random, which lies in 0 .. 9.                 *)
(***************************************************************************)
\* the sizes given to the constructor are -1 .. MaxSize
MaxSize == 3
\* Math.random gives one of the MaxSeed + 1 sequences Draw(0, _), ..
MaxSeed == 3

Sizes == (0 - 1) .. MaxSize

Densities == {0 - 5, 0, 5, 10, 15}

\* the i-th value Math.random returns in one reset
Draw(seed, i) == ((seed + 1) * (i + 3) + (i * i)) % 10

\* GameOfLife.reset: the loops make no row when size <= 0; no test of size
\* or density is made, and nothing is thrown
reset(size, density, seed) ==
    [grid |-> [y \in Coords(size) |->
                 [x \in Coords(size) |->
                    IF Draw(seed, y * size + x) < density THEN 1 ELSE 0]],
     threw |-> FALSE]

InitConfig ==
    /\ grid = <<>>
    /\ call = [op |-> "none", size |-> 0, density |-> 0, threw |-> FALSE, before |-> <<>>]
    /\ NoApp

\* new GameOfLife(size, density)
Construct ==
    /\ call.op = "none"
    /\ \E size \in Sizes, density \in Densities, seed \in 0 .. MaxSeed :
          LET r == reset(size, density, seed)
          IN  /\ grid' = r.grid
              /\ call' = [op |-> "constructor", size |-> size, density |-> density,
                          threw |-> r.threw, before |-> grid]
    /\ UNCHANGED appVars

\* game.reset(density) on the object made
CallReset ==
    /\ call.op = "constructor"
    /\ \E density \in Densities, seed \in 0 .. MaxSeed :
          LET r == reset(call.size, density, seed)
          IN  /\ grid' = r.grid
              /\ call' = [op |-> "reset", size |-> call.size, density |-> density,
                          threw |-> r.threw, before |-> grid]
    /\ UNCHANGED appVars

NextConfig ==
    \/ Construct
    \/ CallReset

SpecConfig == InitConfig /\ [][NextConfig]_vars

\* C23: the constructor and reset fail with InvalidConfig when size <= 0 or
\* the density is outside [0, 1], and then make or replace no grid.
C23_InvalidConfigRejected ==
    (/\ call.op \in {"constructor", "reset"}
     /\ (call.size <= 0 \/ call.density < 0 \/ call.density > 10))
        => (call.threw /\ grid = call.before)

(***************************************************************************)
(* The grid automaton alone: a blinker or a 2 x 2 block, anywhere on a     *)
(* PatternN x PatternN grid, taken through two generations.                *)
(***************************************************************************)
PatternN == 5

\* the three cells of a row (of a column) around c, through the wrap
BlinkerH(c, size) ==
    {<<(c[1] + size - 1) % size, c[2]>>, c, <<(c[1] + 1) % size, c[2]>>}

BlinkerV(c, size) ==
    {<<c[1], (c[2] + size - 1) % size>>, c, <<c[1], (c[2] + 1) % size>>}

\* the 2 x 2 block whose corner of least coordinates (before the wrap) is c
Block(c, size) ==
    {c, <<(c[1] + 1) % size, c[2]>>, <<c[1], (c[2] + 1) % size>>,
     <<(c[1] + 1) % size, (c[2] + 1) % size>>}

InitPattern ==
    /\ \E c \in Cells(PatternN) :
          \E S \in {BlinkerH(c, PatternN), BlinkerV(c, PatternN), Block(c, PatternN)} :
              grid = GridOf(S, PatternN)
    /\ call = [op |-> "none", n |-> 0, start |-> grid, arg |-> <<>>, ret |-> <<>>]
    /\ NoApp

\* one generation: the grid computeNextGeneration returns is stored as the
\* grid of the game
CallNextGeneration ==
    /\ call.n < 2
    /\ grid' = computeNextGeneration(grid, PatternN)
    /\ call' = [op |-> "nextGeneration", n |-> call.n + 1, start |-> call.start,
                arg |-> grid, ret |-> computeNextGeneration(grid, PatternN)]
    /\ UNCHANGED appVars

NextPattern == CallNextGeneration

SpecPattern == InitPattern /\ [][NextPattern]_vars

\* C24: on a 5 x 5 grid holding only the horizontal blinker (1,2), (2,2),
\* (3,2), one generation gives exactly the vertical blinker (2,1), (2,2),
\* (2,3) and a second generation gives back the original grid (period 2).
\* Stated for the blinker around any cell of the grid, the cell (2,2) among
\* them.
C24_BlinkerPeriodTwo ==
    \A c \in Cells(PatternN) :
        call.start = GridOf(BlinkerH(c, PatternN), PatternN) =>
            /\ call.n = 1 => grid = GridOf(BlinkerV(c, PatternN), PatternN)
            /\ call.n = 2 => (/\ call.arg = GridOf(BlinkerV(c, PatternN), PatternN)
                              /\ grid = call.start)

\* the blinker of the claim after its two generations
C24_Witness ==
    /\ call.start = GridOf({<<1, 2>>, <<2, 2>>, <<3, 2>>}, PatternN)
    /\ call.n = 2
    /\ call.arg = GridOf({<<2, 1>>, <<2, 2>>, <<2, 3>>}, PatternN)
    /\ grid = call.start

\* C25: a 2 x 2 block, on a grid large enough that the block does not touch
\* itself through the wrap, is a fixed point: a generation returns the same
\* four live cells.
C25_BlockStill ==
    \A c \in Cells(PatternN) :
        (call.start = GridOf(Block(c, PatternN), PatternN) /\ call.n >= 1) =>
            /\ call.ret = call.arg
            /\ LiveCells(grid, PatternN) = Block(c, PatternN)

\* a block that lies across the edge of the grid, after a generation
C25_Witness ==
    /\ call.start = GridOf(Block(<<PatternN - 1, PatternN - 1>>, PatternN), PatternN)
    /\ call.n = 1
    /\ Cardinality(LiveCells(grid, PatternN)) = 4
    /\ grid[0][0] = 1

(***************************************************************************)
(* The application with every tween delivering its onComplete: gsap calls  *)
(* onComplete when the tween's duration has passed, and the reaction of a  *)
(* Promise.all whose promises are all resolved runs as a microtask.        *)
(***************************************************************************)
\* ShrinkJoin is enabled exactly when this holds: the reaction always moves a
\* chain from its shrink phase to its grow phase
ShrinkJoinReady == \E i \in ReadyChains : chains[i].phase = "shrink"

\* weak fairness of ShrinkJoin, WF_vars(ShrinkJoin), with its enabling
\* condition written out
FairShrinkJoin == []<>(~ShrinkJoinReady) \/ []<><<ShrinkJoin>>_vars

\* step and reset are called FairCalls times at most
FairCalls == 2

NextFair ==
    \/ (nCalls < FairCalls /\ Step)
    \/ (nCalls < FairCalls /\ Reset)
    \/ ShrinkComplete
    \/ GrowComplete
    \/ ShrinkJoin
    \/ GrowJoin

SpecFair ==
    /\ Init
    /\ [][NextFair]_vars
    /\ WF_vars(ShrinkComplete)
    /\ WF_vars(GrowComplete)
    /\ FairShrinkJoin
    /\ WF_vars(GrowJoin)

\* the phases of the transitions that are running, oldest first
Phases(cs) == [i \in DOMAIN cs |-> cs[i].phase]

\* C26: if every shrink and grow tween that was started delivers its
\* completion callback, every accepted transition returns the orchestrator
\* to Idle: whenever a transition is running or the orchestrator is not
\* Idle, later no transition is running and the orchestrator is Idle. A
\* transition starts in its shrink phase, goes to its grow phase only by the
\* regroup, and ends only from its grow phase.
C26_EventuallyIdle ==
    /\ (chains # <<>> \/ ~Idle) ~> (chains = <<>> /\ Idle)
    /\ [][LET p == Phases(chains)
              q == Phases(chains')
          IN  \/ q = p
              \/ q = Append(p, "shrink")
              \/ \E i \in DOMAIN p :
                    /\ p[i] = "shrink"
                    /\ q = [p EXCEPT ![i] = "grow"]
                    /\ call'.op = "shrinkJoined"
              \/ \E i \in DOMAIN p :
                    /\ p[i] = "grow"
                    /\ q = RemoveAt(p, i)
                    /\ call'.op = "growJoined"]_vars

\* a transition that changed the grid has ended, the orchestrator is Idle
\* and the blobs stand on the live cells of the grid
C26_Witness ==
    /\ call.op = "growJoined"
    /\ chains = <<>>
    /\ Idle
    /\ grid # baseGrid
    /\ {KeyOf(heap, b) : b \in RangeSeq(blobs)} = LiveCells(grid, N)
    /\ \E b \in RangeSeq(blobs) : \E m \in DOMAIN metaballs : m > Cardinality(DOMAIN metaballs) /\ heap[b].organismId >= 0

(***************************************************************************)
(* The application where a tween may never deliver its onComplete: only    *)
(* the reactions of the joined promises are certain to run. Nothing in     *)
(* animateNextGeneration sets a timer or settles a promise another way.    *)
(***************************************************************************)
SpecMissing ==
    /\ Spec
    /\ FairShrinkJoin
    /\ WF_vars(GrowJoin)

\* C27: the orchestrator does not hang when a completion signal is missing:
\* even if the completion of some shrink or grow animation never fires, the
\* orchestrator, once it is not Idle, is Idle again later, with no reset
\* from outside.
C27_NoHang == ~Idle ~> Idle

\* C29: animateNextGeneration called while pendingChanges is null or while
\* isAnimating is true returns false, changes nothing of the visualizer and
\* starts no animation; called otherwise it has set isAnimating to true when
\* it returns true.
C29_AnimateGuard ==
    [][(call'.op = "animateNextGeneration" /\ nCalls' # nCalls)
        => IF pendingChanges = <<>> \/ isAnimating
           THEN /\ ~call'.ret
                /\ UNCHANGED <<heap, blobs, blobsMap, organismGroups, metaballsMap,
                               metaballs, pendingChanges, isAnimating, chains, grid>>
           ELSE /\ call'.ret
                /\ isAnimating'
                /\ Len(chains') = Len(chains) + 1]_vars

\* animateNextGeneration has been refused while a transition was running
C29_Witness ==
    /\ call.op = "animateNextGeneration"
    /\ ~call.ret
    /\ isAnimating
    /\ chains # <<>>
    /\ pendingChanges # <<>>

\* C30: a step requested while the orchestrator is not Idle is skipped as a
\* whole: updateBlobs returns false, pendingChanges and the bookkeeping stay
\* as they are, and game.grid is not advanced either.
C30_BusyStepSkipped ==
    [][(call'.op = "step" /\ nCalls' # nCalls /\ ~Idle)
        => /\ ~call'.accepted
           /\ UNCHANGED <<heap, blobs, blobsMap, organismGroups, metaballsMap,
                          metaballs, pendingChanges, isAnimating, chains>>
           /\ grid' = grid]_vars

\* C31: in every reachable state the list blobs and the map blobsMap describe
\* the same set of entities: every blob of blobs is the value of blobsMap at
\* its own coordinate key, every value of blobsMap is in blobs, and no two
\* blobs of blobs have the same coordinate.
C31_ListMatchesMap ==
    /\ \A b \in RangeSeq(blobs) : blobsMap[KeyOf(heap, b)] = b
    /\ \A c \in DOMAIN blobsMap : blobsMap[c] # 0 => blobsMap[c] \in RangeSeq(blobs)
    /\ \A i, j \in DOMAIN blobs :
          KeyOf(heap, blobs[i]) = KeyOf(heap, blobs[j]) => i = j

(***************************************************************************)
(* prepareNextGeneration and getChangedCells given the same two grids: the *)
(* grid the visualizer was made for and another grid of the same size.     *)
(***************************************************************************)
InitAgree ==
    /\ grid \in DiffGrids
    /\ call = [op |-> "none", new |-> <<>>, ret |-> FALSE, diff |-> <<>>]
    /\ LET v == Collect(createBlobs(NewViz(N), grid, N))
       IN  /\ heap = v.heap
           /\ blobs = v.blobs
           /\ blobsMap = v.blobsMap
           /\ organismGroups = v.organismGroups
           /\ metaballsMap = v.metaballsMap
           /\ metaballs = v.metaballs
           /\ pendingChanges = v.pendingChanges
           /\ isAnimating = v.isAnimating
           /\ chains = v.chains
    /\ baseGrid = grid
    /\ nCalls = 0
    /\ app = AppStart

\* blobVisualizer.prepareNextGeneration(game.grid, newGrid)
CallPrepareNextGeneration ==
    /\ call.op = "none"
    /\ \E newGrid \in DiffGrids :
          LET r == prepareNextGeneration(Viz, grid, newGrid, N)
          IN  /\ SetViz(r.v)
              /\ call' = [op |-> "prepareNextGeneration", new |-> newGrid,
                          ret |-> r.ret, diff |-> <<>>]
    /\ UNCHANGED <<grid, baseGrid, nCalls, app>>

\* game.getChangedCells(game.grid, newGrid) with the grids of the prepare
CallGetChangedCellsSame ==
    /\ call.op = "prepareNextGeneration"
    /\ call' = [call EXCEPT !.op = "getChangedCells",
                            !.diff = getChangedCells(grid, call.new, N)]
    /\ UNCHANGED <<grid, heap, blobs, blobsMap, organismGroups, metaballsMap, metaballs,
                   pendingChanges, isAnimating, chains, baseGrid, nCalls, app>>

NextAgree ==
    \/ CallPrepareNextGeneration
    \/ CallGetChangedCellsSame

SpecAgree == InitAgree /\ [][NextAgree]_vars

\* the cells of the entries of a diff that carry the given state
DiffCells(diff, state) ==
    {<<diff[i].x, diff[i].y>> : i \in {j \in DOMAIN diff : diff[j].state = state}}

\* C32: the classification of prepareNextGeneration agrees with
\* getChangedCells on the same two grids: the cells of appearingCells are
\* exactly the diff entries with state 1, the cells of disappearingCells are
\* exactly the diff entries with state 0, and a cell is in neither list
\* exactly when the diff has no entry for it.
C32_PrepareAgreesWithDiff ==
    (call.op = "getChangedCells" /\ call.ret) =>
        LET changes == pendingChanges[1]
            appearing == RangeSeq(changes.appearingCells)
            disappearing == RangeSeq(changes.disappearingCells)
        IN  /\ appearing = DiffCells(call.diff, 1)
            /\ disappearing = DiffCells(call.diff, 0)
            /\ Len(changes.appearingCells) + Len(changes.disappearingCells) = Len(call.diff)
            /\ \A c \in Cells(N) :
                  (c \notin appearing \cup disappearing)
                    <=> ~(\E i \in DOMAIN call.diff : <<call.diff[i].x, call.diff[i].y>> = c)

\* both were called on two grids with a cell born, a cell dying, a cell
\* staying alive and a cell staying dead
C32_Witness ==
    /\ call.op = "getChangedCells"
    /\ call.ret
    /\ DiffCells(call.diff, 1) # {}
    /\ DiffCells(call.diff, 0) # {}
    /\ pendingChanges[1].persistentCells # <<>>
    /\ Len(call.diff) + Len(pendingChanges[1].persistentCells) < N * N

(***************************************************************************)
(* The application where a tween may call its onComplete again. onComplete *)
(* is the resolve function of the promise made for the blob, and a promise *)
(* is settled once: resolve called on a settled promise does nothing.      *)
(***************************************************************************)
\* a join that counts signals: any signal takes the next promise off the
\* list, whichever blob it comes from
resolveCounted(waiting, b) == IF waiting = <<>> THEN waiting ELSE Tail(waiting)

\* resolve of the promise of blob b, on the list of the promises of the
\* phase that are not yet settled
resolve(waiting, b) ==
    LET Other(x) == x # b
    IN  SelectSeq(waiting, Other)

\* the blobs of the i-th chain whose promise is settled
Settled(c) ==
    IF c.phase = "shrink"
    THEN RangeSeq(c.changes.blobsToRemove) \ RangeSeq(c.waiting)
    ELSE RangeSeq(c.changes.blobsToRemove)
            \cup (RangeSeq(c.changes.newBlobs) \ RangeSeq(c.waiting))

\* onComplete fires once more for a blob whose promise is settled
DuplicateComplete ==
    /\ ReadyChains = {}
    /\ \E i \in DOMAIN chains :
          \E b \in Settled(chains[i]) :
              /\ chains' = [chains EXCEPT ![i].waiting = resolve(@, b)]
              /\ call' = [op |-> "duplicateComplete"]
    /\ UNCHANGED <<grid, heap, blobs, blobsMap, organismGroups, metaballsMap, metaballs,
                   pendingChanges, isAnimating, baseGrid, nCalls, app>>

NextDuplicate ==
    \/ (nCalls < FairCalls /\ Step)
    \/ (nCalls < FairCalls /\ Reset)
    \/ ShrinkComplete
    \/ GrowComplete
    \/ DuplicateComplete
    \/ ShrinkJoin
    \/ GrowJoin

SpecDuplicate == Init /\ [][NextDuplicate]_vars

\* C33: the shrink and grow joins are idempotent per entity. A completion
\* callback that fires again for the same entity changes nothing; a promise
\* leaves the list of a phase only by the first completion of its own tween;
\* the regroup of a transition starts, and its final reaction runs, only when
\* no promise of the phase is left; and each transition goes once from its
\* shrink phase to its grow phase and once from its grow phase to its end.
C33_JoinIdempotent ==
    /\ [][call'.op = "duplicateComplete"
            => UNCHANGED <<chains, heap, blobs, blobsMap, organismGroups,
                           pendingChanges, isAnimating>>]_vars
    /\ [][\A i \in DOMAIN chains :
            (/\ i \in DOMAIN chains'
             /\ chains'[i].changes = chains[i].changes
             /\ chains'[i].phase = chains[i].phase
             /\ chains'[i].waiting # chains[i].waiting)
            => /\ call'.op = (IF chains[i].phase = "shrink"
                              THEN "shrinkComplete" ELSE "growComplete")
               /\ chains[i].waiting # <<>>
               /\ chains'[i].waiting = Tail(chains[i].waiting)]_vars
    /\ [][call'.op = "shrinkJoined"
            => \E i \in DOMAIN chains :
                  /\ chains[i].phase = "shrink"
                  /\ chains[i].waiting = <<>>
                  /\ chains' = [chains EXCEPT ![i].phase = "grow",
                                              ![i].waiting = chains[i].changes.newBlobs]]_vars
    /\ [][call'.op = "growJoined"
            => \E i \in DOMAIN chains :
                  /\ chains[i].phase = "grow"
                  /\ chains[i].waiting = <<>>
                  /\ chains' = RemoveAt(chains, i)]_vars
    /\ [][LET p == Phases(chains)
              q == Phases(chains')
          IN  \/ Len(q) = Len(p) /\ \A i \in DOMAIN p : p[i] = "grow" => q[i] = "grow"
              \/ q = Append(p, "shrink")
              \/ \E i \in DOMAIN p : p[i] = "grow" /\ q = RemoveAt(p, i)]_vars

\* a shrink callback fired twice for one blob while the shrink tween of
\* another blob of the same transition is still running
C33_Witness ==
    /\ call.op = "duplicateComplete"
    /\ \E i \in DOMAIN chains :
          /\ chains[i].phase = "shrink"
          /\ Len(chains[i].changes.blobsToRemove) >= 2
          /\ Len(chains[i].waiting) = 1

(***************************************************************************)
(* The frame loop: GameOfLife3DApp.animate runs once per animation frame,  *)
(* togglePlay and the 'Step Forward' button come from the GUI. Time is     *)
(* counted in units of which stepInterval is StepInterval.                 *)
(***************************************************************************)
\* config.stepInterval
StepInterval == 2
\* performance.now() grows by 1 .. MaxTick from one frame to the next
MaxTick == 3
\* no frame runs after time MaxTime
MaxTime == 6

\* a test that leaves out the visualizer's isAnimating
shouldStepWhileAnimating(paused, animating, currentTime, lastStepTime) ==
    /\ ~paused
    /\ currentTime - lastStepTime > StepInterval

\* the condition of animate under which the frame makes a step
shouldStep(paused, animating, currentTime, lastStepTime) ==
    /\ ~paused
    /\ ~animating
    /\ currentTime - lastStepTime > StepInterval

\* GameOfLife3DApp.animate at time currentTime: step if the condition holds,
\* then blobVisualizer.update
animate(v, g, a, currentTime, size) ==
    IF shouldStep(a.isPaused, v.isAnimating, currentTime, a.lastStepTime)
    THEN LET r == step(v, g, size)
         IN  [v |-> update(r.v), grid |-> r.grid,
              app |-> [a EXCEPT !.lastStepTime = currentTime, !.now = currentTime],
              stepped |-> TRUE]
    ELSE [v |-> update(v), grid |-> g,
          app |-> [a EXCEPT !.now = currentTime],
          stepped |-> FALSE]

Frame ==
    /\ ReadyChains = {}
    /\ app.now < MaxTime
    /\ \E dt \in 1 .. MaxTick :
          LET r == animate(Viz, grid, app, Min(app.now + dt, MaxTime), N)
          IN  /\ SetViz(r.v)
              /\ grid' = r.grid
              /\ app' = r.app
              /\ call' = [op |-> "animate", stepped |-> r.stepped]
              /\ nCalls' = IF r.stepped THEN nCalls + 1 ELSE nCalls
    /\ UNCHANGED baseGrid

\* GameOfLife3DApp.togglePlay
TogglePlay ==
    /\ ReadyChains = {}
    /\ app' = [app EXCEPT !.isPaused = ~@]
    /\ call' = [op |-> "togglePlay"]
    /\ UNCHANGED <<grid, heap, blobs, blobsMap, organismGroups, metaballsMap, metaballs,
                   pendingChanges, isAnimating, chains, baseGrid, nCalls>>

NextFrame ==
    \/ Frame
    \/ TogglePlay
    \/ (nCalls < FairCalls /\ Step)
    \/ ShrinkComplete
    \/ GrowComplete
    \/ ShrinkJoin
    \/ GrowJoin

SpecFrame == Init /\ [][NextFrame]_vars

=============================================================================
